---- MODULE Spec2Model ----
(***************************************************************************)
(* Model of the mediarecorder front-end (src/src/lib.rs): a Seed           *)
(* model/update/view application that asks the browser for an audio        *)
(* stream, records it with a MediaRecorder and keeps the bytes of the      *)
(* chunk it read last.                                                     *)
(*                                                                         *)
(* The program's state is the Model struct, the messages waiting for       *)
(* update, the asynchronous commands handed to orders.perform_cmd, and     *)
(* the browser objects the program creates (recorders and closures).       *)
(* Every `.unwrap()` of a fallible browser call is a panic when the call   *)
(* returns Err; the wasm build aborts on panic, so a panic stops the       *)
(* update loop and runs no destructors.                                    *)
(***************************************************************************)
EXTENDS Integers, Sequences, FiniteSets, TLC

VARIABLES model, queue, getAudio, reads, recorders, closures, log,
          failure, panicked, handled, delivered, clicks

vars == <<model, queue, getAudio, reads, recorders, closures, log,
          failure, panicked, handled, delivered, clicks>>

----------------------------------------------------------------------------
(* Bounds of the model *)

\* number of data blobs the browser delivers in a run
MaxBlobs == 2
\* number of clicks on the Stop button in a run
MaxClicks == 2
\* longest chunk, in bytes
MaxChunkLen == 1

\* byte values a chunk is built from: the program only stores and counts the
\* bytes, so chunks differ by their length
ByteVals == {255}

RECURSIVE SeqsUpTo(_)
SeqsUpTo(n) ==
    IF n = 0 THEN {<<>>}
    ELSE LET S == SeqsUpTo(n - 1)
         IN  S \cup {Append(s, b) : s \in {t \in S : Len(t) = n - 1}, b \in ByteVals}

\* the contents a blob may have
Chunks == SeqsUpTo(MaxChunkLen)

----------------------------------------------------------------------------
(* Program constants *)

\* options.audio_bits_per_second(64_000)
AudioBitsPerSecond == 64000
\* recorder.start_with_time_slice(1000)
TimeSlice == 1000
MimeType == "audio/ogg;codecs=opus"

\* Option::None for the handles kept in the model
None == 0

----------------------------------------------------------------------------
(* Helpers *)

Last(s) == s[Len(s)]

RemoveAt(s, i) == SubSeq(s, 1, i - 1) \o SubSeq(s, i + 1, Len(s))

Range(s) == {s[i] : i \in 1..Len(s)}

\* positions of x in the sequence s
Positions(s, x) == {i \in 1..Len(s) : s[i] = x}

Count(s, x) == Cardinality(Positions(s, x))

\* enum Msg: a message and where it came from
Msg(type, payload, from) == [type |-> type, payload |-> payload, from |-> from]

\* #[derive(Default)] struct Model
ModelDefault == [recorder |-> None, on_data_callback |-> None, last_chunk |-> <<>>]

\* init: orders.perform_cmd(get_audio_stream()) spawns one future
InitCmdsTwice == <<"start", "start">>
InitCmds == <<"start">>

\* read_as_bytes(&blob): the bytes a blob holds
read_as_bytes(blob) == blob.data

\* view: the number rendered after "Last chunk length: "
view == Len(model.last_chunk)

\* create_recorder: a new, inactive recorder on the stream
create_recorder(stream) ==
    [stream |-> stream,
     audio_bits_per_second |-> AudioBitsPerSecond,
     mime_type |-> MimeType,
     ondataavailable |-> None,
     timeslice |-> 0,
     state |-> "inactive",
     started |-> FALSE,
     flush |-> FALSE,
     calls |-> <<>>]

\* the calls update makes on a fresh recorder, in order
SetupCallsStartFirst == <<"start_with_time_slice", "set_ondataavailable">>
SetupCalls == <<"set_ondataavailable", "start_with_time_slice">>

\* recorder.set_ondataavailable(Some(cb)) then recorder.start_with_time_slice(1000)
SetupRecorder(rec, cb, startOk) ==
    [rec EXCEPT !.ondataavailable = cb,
                !.calls = SetupCalls,
                !.timeslice = IF startOk THEN TimeSlice ELSE @,
                !.state = IF startOk THEN "recording" ELSE @,
                !.started = startOk]

\* Msg::AudioStream: model.recorder = Some(recorder);
\* model.on_data_callback = Some(on_data_callback)
StoreHandlesCallbackOnly(m, r, cb) == [m EXCEPT !.on_data_callback = cb]
StoreHandles(m, r, cb) == [m EXCEPT !.recorder = r, !.on_data_callback = cb]

\* Msg::BlobReceived: orders.perform_cmd(async move { read_as_bytes(&blob) ... })
BlobReceivedCmdsTwice(blob) == <<blob, blob>>
BlobReceivedCmds(blob) == <<blob>>

\* Msg::BlobRead: model.last_chunk = bytes
StoreChunkAppend(m, bytes) == [m EXCEPT !.last_chunk = @ \o bytes]
StoreChunk(m, bytes) == [m EXCEPT !.last_chunk = bytes]

\* Msg::StopRecording: model.recorder.take()
TakeRecorderKeep(m) == m
TakeRecorderDropCallback(m) == [m EXCEPT !.recorder = None, !.on_data_callback = None]
TakeRecorder(m) == [m EXCEPT !.recorder = None]

\* Msg::StopRecording: recorder.stop(); Err when the recorder is not recording
StopRecorderSkipped(rec) == rec
StopRecorder(rec) ==
    [rec EXCEPT !.calls = Append(@, "stop"),
                !.state = "inactive",
                !.flush = IF rec.state = "recording" THEN TRUE ELSE @]

\* Msg::StopRecording orders no command
StopRecordingCmdsRetry == <<"start">>
StopRecordingCmds == <<>>

\* result.unwrap(): panics when the result is Err
Panic(what) ==
    /\ failure' = what
    /\ panicked' = TRUE

NoPanic == UNCHANGED <<failure, panicked>>

----------------------------------------------------------------------------
Init ==
    /\ model = ModelDefault
    /\ queue = <<>>
    /\ getAudio = InitCmds
    /\ reads = <<>>
    /\ recorders = <<>>
    /\ closures = <<>>
    /\ log = <<>>
    /\ failure = "none"
    /\ panicked = FALSE
    /\ handled = <<>>
    /\ delivered = <<>>
    /\ clicks = 0

----------------------------------------------------------------------------
(* get_audio_stream *)

\* first poll: media_devices() and get_user_media_with_constraints(), up to the await
GetAudioStreamPoll ==
    \E i \in 1..Len(getAudio), outcome \in {"ok", "media_devices", "get_user_media"} :
        /\ ~panicked
        /\ getAudio[i] = "start"
        /\ IF outcome = "ok"
           THEN /\ getAudio' = [getAudio EXCEPT ![i] = "awaiting"]
                /\ NoPanic
                /\ UNCHANGED log
           ELSE /\ getAudio' = [getAudio EXCEPT ![i] = "failed"]
                /\ log' = Append(log, IF outcome = "media_devices"
                                      THEN "Error getting media devices"
                                      ELSE "Error getting user media")
                /\ Panic(outcome)
        /\ UNCHANGED <<model, queue, reads, recorders, closures, handled, delivered, clicks>>

\* the stream promise settles: Msg::AudioStream(stream), or log and panic
GetAudioStreamSettle ==
    \E i \in 1..Len(getAudio), ok \in BOOLEAN :
        /\ ~panicked
        /\ getAudio[i] = "awaiting"
        /\ IF ok
           THEN /\ getAudio' = [getAudio EXCEPT ![i] = "done"]
                /\ queue' = Append(queue, Msg("AudioStream", i, "cmd"))
                /\ NoPanic
                /\ UNCHANGED log
           ELSE /\ getAudio' = [getAudio EXCEPT ![i] = "failed"]
                /\ log' = Append(log, "Error extracting audio stream")
                /\ Panic("stream")
                /\ UNCHANGED queue
        /\ UNCHANGED <<model, reads, recorders, closures, handled, delivered, clicks>>

----------------------------------------------------------------------------
(* update *)

\* update is called with the message at the head of the queue
Dispatch(type) ==
    /\ ~panicked
    /\ queue # <<>>
    /\ Head(queue).type = type
    /\ handled' = Append(handled, type)

\* Msg::AudioStream(stream)
UpdateAudioStream ==
    /\ Dispatch("AudioStream")
    /\ \E created \in BOOLEAN, startOk \in BOOLEAN :
        LET cb == Len(closures) + 1
            r == Len(recorders) + 1
            rec == create_recorder(Head(queue).payload)
            old == model.on_data_callback
        IN  IF ~created
            THEN /\ closures' = Append(closures, "alive")
                 /\ Panic("create_recorder")
                 /\ UNCHANGED <<model, recorders, log>>
            ELSE IF ~startOk
            THEN /\ closures' = Append(closures, "alive")
                 /\ recorders' = Append(recorders, SetupRecorder(rec, cb, FALSE))
                 /\ Panic("start")
                 /\ UNCHANGED <<model, log>>
            ELSE /\ recorders' = Append(recorders, SetupRecorder(rec, cb, TRUE))
                 /\ model' = StoreHandles(model, r, cb)
                 /\ closures' = Append(IF old = None THEN closures
                                       ELSE [closures EXCEPT ![old] = "dropped"],
                                       "alive")
                 /\ log' = Append(log, "Listening")
                 /\ NoPanic
    /\ queue' = Tail(queue)
    /\ UNCHANGED <<getAudio, reads, delivered, clicks>>

\* Msg::BlobReceived(blob), reading one blob at a time
UpdateBlobReceivedOneAtATime ==
    /\ Dispatch("BlobReceived")
    /\ log' = Append(log, "Blob received")
    /\ reads' = IF reads = <<>> THEN BlobReceivedCmds(Head(queue).payload) ELSE reads
    /\ queue' = Tail(queue)
    /\ NoPanic
    /\ UNCHANGED <<model, getAudio, recorders, closures, delivered, clicks>>

\* Msg::BlobReceived(blob)
UpdateBlobReceived ==
    /\ Dispatch("BlobReceived")
    /\ log' = Append(log, "Blob received")
    /\ reads' = reads \o BlobReceivedCmds(Head(queue).payload)
    /\ queue' = Tail(queue)
    /\ NoPanic
    /\ UNCHANGED <<model, getAudio, recorders, closures, delivered, clicks>>

\* Msg::BlobRead(bytes)
UpdateBlobRead ==
    /\ Dispatch("BlobRead")
    /\ model' = StoreChunk(model, Head(queue).payload)
    /\ queue' = Tail(queue)
    /\ NoPanic
    /\ UNCHANGED <<getAudio, reads, recorders, closures, log, delivered, clicks>>

\* Msg::StopRecording
UpdateStopRecording ==
    /\ Dispatch("StopRecording")
    /\ queue' = Tail(queue)
    /\ IF model.recorder # None
       THEN LET r == model.recorder
                ok == recorders[r].state = "recording"
            IN  /\ model' = TakeRecorder(model)
                /\ recorders' = [recorders EXCEPT ![r] = StopRecorder(@)]
                /\ IF ok
                   THEN /\ log' = Append(log, "Recording stopped")
                        /\ NoPanic
                   ELSE /\ Panic("stop")
                        /\ UNCHANGED log
       ELSE /\ NoPanic
            /\ UNCHANGED <<model, recorders, log>>
    /\ getAudio' = getAudio \o StopRecordingCmds
    /\ UNCHANGED <<reads, closures, delivered, clicks>>

\* the future spawned by BlobReceived finishes: Msg::BlobRead(bytes), or panic
ReadSettle ==
    \E i \in 1..Len(reads), ok \in BOOLEAN :
        /\ ~panicked
        /\ reads' = RemoveAt(reads, i)
        /\ IF ok
           THEN /\ queue' = Append(queue, Msg("BlobRead", read_as_bytes(reads[i]), "cmd"))
                /\ NoPanic
           ELSE /\ Panic("read")
                /\ UNCHANGED queue
        /\ UNCHANGED <<model, getAudio, recorders, closures, log, handled, delivered, clicks>>

----------------------------------------------------------------------------
(* the browser *)

\* the recorder fires dataavailable: a time slice has elapsed, or it has
\* stopped and hands over what is left; the registered closure sends BlobReceived
DataAvailable ==
    \E r \in 1..Len(recorders), data \in Chunks :
        LET rec == recorders[r]
            blob == [data |-> data]
        IN  /\ Len(delivered) < MaxBlobs
            /\ rec.state = "recording" \/ rec.flush
            /\ rec.ondataavailable # None
            /\ recorders' = [recorders EXCEPT ![r].flush = FALSE]
            /\ delivered' = Append(delivered, blob)
            /\ IF closures[rec.ondataavailable] = "alive"
               THEN /\ queue' = Append(queue, Msg("BlobReceived", blob, "callback"))
                    /\ NoPanic
               ELSE /\ Panic("dropped_callback")
                    /\ UNCHANGED queue
            /\ UNCHANGED <<model, getAudio, reads, closures, log, handled, clicks>>

\* the stream's tracks end and the recorder stops by itself
TrackEnded ==
    \E r \in 1..Len(recorders) :
        /\ recorders[r].state = "recording"
        /\ recorders' = [recorders EXCEPT ![r].state = "inactive", ![r].flush = TRUE]
        /\ UNCHANGED <<model, queue, getAudio, reads, closures, log,
                       failure, panicked, handled, delivered, clicks>>

\* the user clicks the Stop button rendered by view
ClickStop ==
    /\ clicks < MaxClicks
    /\ clicks' = clicks + 1
    /\ queue' = Append(queue, Msg("StopRecording", None, "click"))
    /\ UNCHANGED <<model, getAudio, reads, recorders, closures, log,
                   failure, panicked, handled, delivered>>

----------------------------------------------------------------------------
Next ==
    \/ GetAudioStreamPoll
    \/ GetAudioStreamSettle
    \/ UpdateAudioStream
    \/ UpdateBlobReceived
    \/ UpdateBlobRead
    \/ UpdateStopRecording
    \/ ReadSettle
    \/ DataAvailable
    \/ TrackEnded
    \/ ClickStop

Spec == Init /\ [][Next]_vars

\* the event loop runs every queued message and the executor polls every
\* spawned future; the browser finishes every blob read it was given
FairSpec ==
    /\ Spec
    /\ WF_vars(GetAudioStreamPoll)
    /\ WF_vars(UpdateAudioStream)
    /\ WF_vars(UpdateBlobReceived)
    /\ WF_vars(UpdateBlobRead)
    /\ WF_vars(UpdateStopRecording)
    /\ WF_vars(ReadSettle)

----------------------------------------------------------------------------
(* State functions the properties are stated with *)

Recorders == 1..Len(recorders)

\* update has been called with a message of this type
Processed(type) == type \in Range(handled)

\* this step is a call of update with a message of this type
Processing(type) == handled' = Append(handled, type)

\* recorders whose start succeeded and on which stop has not been called
ActiveRecorders ==
    {r \in Recorders : recorders[r].started /\ "stop" \notin Range(recorders[r].calls)}

QueuedTypes == {queue[i].type : i \in 1..Len(queue)}

\* a stream request is still on its way to an AudioStream message
StreamRequestPending == \E i \in 1..Len(getAudio) : getAudio[i] \in {"start", "awaiting"}

----------------------------------------------------------------------------
(* C1: at most one recorder is active at a time: the number of recorders   *)
(* started and not yet stopped is at most 1, and no AudioStream message    *)
(* waits to be processed while model.recorder holds a recorder.            *)
C1_AtMostOneActiveRecorder ==
    /\ Cardinality(ActiveRecorders) <= 1
    /\ "AudioStream" \in QueuedTypes => model.recorder = None

C1_Witness ==
    /\ model.recorder # None
    /\ ActiveRecorders = {model.recorder}
    /\ recorders[model.recorder].state = "recording"

(* C2: a StopRecording processed after AudioStream, with model.recorder    *)
(* Some, calls stop() on that recorder and leaves model.recorder None.     *)
C2_StopReleasesRecorder ==
    [][(Processing("StopRecording") /\ Processed("AudioStream") /\ model.recorder # None)
         => /\ recorders'[model.recorder].calls =
                   Append(recorders[model.recorder].calls, "stop")
            /\ model'.recorder = None]_vars

C2_Witness ==
    /\ Processed("AudioStream")
    /\ Processed("StopRecording")
    /\ model.recorder = None
    /\ \E r \in Recorders : Last(recorders[r].calls) = "stop" /\ recorders[r].flush

(* C3: the media calls happen in order: a recorder is created only on a    *)
(* stream whose request has resolved, the data callback is registered      *)
(* before the recorder is started, no BlobReceived or BlobRead is          *)
(* processed before AudioStream, and stop() is only called on a recorder   *)
(* that has been started.                                                  *)
C3_MediaCallOrder ==
    /\ \A r \in Recorders :
          LET c == recorders[r].calls
          IN  /\ getAudio[recorders[r].stream] = "done"
              /\ \A i \in Positions(c, "start_with_time_slice") :
                    \E j \in Positions(c, "set_ondataavailable") : j < i
              /\ \A i \in Positions(c, "stop") :
                    /\ recorders[r].started
                    /\ \E j \in Positions(c, "start_with_time_slice") : j < i
    /\ \A i \in 1..Len(handled) :
          handled[i] \in {"BlobReceived", "BlobRead"}
             => \E j \in 1..(i - 1) : handled[j] = "AudioStream"

C3_Witness ==
    /\ Processed("BlobRead")
    /\ \E r \in Recorders : "stop" \in Range(recorders[r].calls)

(* C4: whenever no blob read is pending (and none has failed), last_chunk  *)
(* holds the bytes of the blob the recorder delivered last.                *)
C4_LastChunkIsMostRecent ==
    (/\ delivered # <<>>
     /\ reads = <<>>
     /\ QueuedTypes \cap {"BlobReceived", "BlobRead"} = {}
     /\ ~panicked)
       => model.last_chunk = read_as_bytes(Last(delivered))

(* C5, as stated: the value shown by view never decreases.                 *)
C5_DisplayNeverDecreases == [][view' >= view]_vars

(* C5, amended: the value shown by view is the length of the chunk of the  *)
(* BlobRead processed last: every BlobRead sets it to the length of its    *)
(* own chunk, and no other message changes it.                             *)
C5_DisplayIsLastChunkLength ==
    [][IF Processing("BlobRead")
       THEN view' = Len(Head(queue).payload)
       ELSE view' = view]_vars

C5_Witness ==
    /\ Count(handled, "BlobRead") >= 2
    /\ view = 0
    /\ \E i \in 1..Len(delivered) : Len(delivered[i].data) > 0

(* C6: every failure of the stream request, of the recorder construction   *)
(* or of the recorder start is logged and only aborts the operation: the   *)
(* model is as before, no AudioStream is dispatched for a failed request,  *)
(* and the application goes on processing messages.                        *)
C6_FailuresLoggedAndAborted ==
    failure \in {"media_devices", "get_user_media", "stream", "create_recorder", "start"}
       => /\ model.recorder = None
          /\ model.on_data_callback = None
          /\ \A i \in 1..Len(getAudio) :
                getAudio[i] = "failed" =>
                   \A k \in 1..Len(queue) :
                      ~(queue[k].type = "AudioStream" /\ queue[k].payload = i)
          /\ Range(log) \cap {"Error getting media devices", "Error getting user media",
                              "Error extracting audio stream"} # {}
          /\ ~panicked

(* C7: nothing is retried: the stream request is issued exactly once, by   *)
(* init, and at most one recorder is ever constructed.                     *)
C7_NoRetry ==
    /\ Len(getAudio) = 1
    /\ Count(handled, "AudioStream") <= 1
    /\ Len(recorders) <= 1
    /\ Len(closures) <= 1

C7_Witness ==
    /\ Processed("StopRecording")
    /\ Len(recorders) = 1
    /\ model.recorder = None
    /\ getAudio = <<"done">>

(* C8, as stated: once AudioStream has been processed no asynchronous      *)
(* command is pending and no message comes from one.                       *)
C8_OnlyStreamAwait ==
    Processed("AudioStream")
       => /\ reads = <<>>
          /\ \A i \in 1..Len(queue) : queue[i].from # "cmd"

(* C8, amended: suspension occurs at the awaited stream promise and at the *)
(* awaited read of each received blob: once AudioStream has been processed *)
(* the stream request is no longer pending, the pending commands are blob  *)
(* reads, one at most for each BlobReceived processed, and the only        *)
(* messages commands produce are BlobRead.                                 *)
C8_AwaitsAreStreamAndReads ==
    Processed("AudioStream")
       => /\ ~StreamRequestPending
          /\ \A i \in 1..Len(queue) : queue[i].from = "cmd" => queue[i].type = "BlobRead"
          /\ Len(reads) + Count(handled, "BlobRead")
                + Cardinality({i \in 1..Len(queue) : queue[i].type = "BlobRead"})
                <= Count(handled, "BlobReceived")

C8_Witness ==
    /\ Processed("AudioStream")
    /\ Len(reads) >= 1
    /\ \E i \in 1..Len(queue) : queue[i].from = "cmd"

(* C9: stop() is called at most once on a recorder, and a StopRecording    *)
(* processed while model.recorder is None calls nothing and leaves the     *)
(* model and the recorders as they are.                                    *)
C9_SingleStop ==
    /\ [](\A r \in Recorders : Count(recorders[r].calls, "stop") <= 1)
    /\ [][(Processing("StopRecording") /\ model.recorder = None)
            => UNCHANGED <<model, recorders, closures, getAudio, reads, log,
                           failure, panicked>>]_vars

C9_Witness ==
    /\ Count(handled, "StopRecording") >= 2
    /\ model.recorder = None
    /\ \E r \in Recorders : Count(recorders[r].calls, "stop") = 1

(* C10: the data callback handle outlives its use: whenever a recorder has *)
(* the ondataavailable callback registered, model.on_data_callback is      *)
(* Some and that closure is alive; model.recorder Some implies             *)
(* model.on_data_callback Some.                                            *)
C10_CallbackOutlivesRecorder ==
    /\ \A r \in Recorders :
          recorders[r].ondataavailable # None
             => /\ model.on_data_callback # None
                /\ closures[recorders[r].ondataavailable] = "alive"
    /\ model.recorder # None => model.on_data_callback # None

ReadFailures == IF failure = "read" THEN 1 ELSE 0

(* C12: under fair scheduling every blob the recorder delivers is          *)
(* eventually reflected in the model: the k-th data event leads to a       *)
(* BlobReceived being processed and then, unless a read fails, to a k-th   *)
(* BlobRead being processed, also for a blob delivered after               *)
(* StopRecording.                                                          *)
C12_EveryBlobReflected ==
    \A k \in 1..MaxBlobs :
        (Len(delivered) >= k)
           ~> (/\ Count(handled, "BlobReceived") >= k
               /\ Count(handled, "BlobRead") + ReadFailures >= k)

(* C13: each message changes only its own part of the model: BlobReceived  *)
(* changes no field, BlobRead changes last_chunk only, StopRecording       *)
(* changes recorder only, AudioStream changes recorder and                 *)
(* on_data_callback only.                                                  *)
C13_MessageFrames ==
    [][/\ Processing("BlobReceived") => model' = model
       /\ Processing("BlobRead") =>
             /\ model'.recorder = model.recorder
             /\ model'.on_data_callback = model.on_data_callback
       /\ Processing("StopRecording") =>
             /\ model'.on_data_callback = model.on_data_callback
             /\ model'.last_chunk = model.last_chunk
       /\ Processing("AudioStream") => model'.last_chunk = model.last_chunk]_vars

C13_Witness ==
    /\ {"AudioStream", "BlobReceived", "BlobRead", "StopRecording"} \subseteq Range(handled)
    /\ model.recorder = None
    /\ model.on_data_callback # None
    /\ model.last_chunk # <<>>

(* C14: there is no backpressure on blob reads: every BlobReceived spawns  *)
(* one more read however many are pending, so two or more reads can be     *)
(* pending at once, and StopRecording cancels no pending read.             *)
C14_NoBackpressure ==
    /\ [][Processing("BlobReceived") =>
             reads' = Append(reads, Head(queue).payload)]_vars
    /\ [][Processing("StopRecording") => reads' = reads]_vars

C14_Witness ==
    /\ Len(reads) >= 2
    /\ handled # <<>>
    /\ Last(handled) = "StopRecording"
    /\ \E r \in Recorders : "stop" \in Range(recorders[r].calls)

====
